---- MODULE Spec2Model ----
(***************************************************************************)
(* Client-side real-time synchronisation layer of countinorder: the event  *)
(* emitter (createEventEmitter), the reconnecting websocket transport      *)
(* (useWebsocket) and the Home component's 'score' subscriber.             *)
(* Source: src/frontend/src/App.tsx.                                       *)
(*                                                                         *)
(* The browser is single threaded: every action below is one event-loop    *)
(* task (an effect flush, a socket event, a timer callback) run to         *)
(* completion.  Assigning window.location only requests a navigation; the  *)
(* document keeps running until it is unloaded, so the model keeps the     *)
(* page alive: an unload merely truncates a behaviour.                     *)
(***************************************************************************)
EXTENDS Integers, Sequences, FiniteSets, TLC

(* ---------------- bounds of the model ---------------- *)
MaxCloses == 3        \* close events the network may deliver
MaxMessages == 2      \* inbound messages the network may deliver
MaxEffectRuns == 2    \* runs of the transport's mount effect (mount + re-runs)
MaxProbes == 2        \* callbacks a client of the emitter may register (BusSpec)
MaxSubmits == 2       \* commands handed to WebSocket.send
MaxNow == 3           \* clock values, in poll intervals

(* ---------------- program constants ---------------- *)
PolicyViolation == 1008
TOPIC == "score"

Null == -1                     \* JavaScript null (numbers are >= 0)
NoSocket == 0                  \* websocketRef.current === null

CloseCodes == {1000, 1006, PolicyViolation}
Values == {1, 2, 10}           \* values carried by inbound messages
HighScores == {5}              \* high score known from the REST collaborator
Topics == {TOPIC, "other"}

AllEvents == {"open", "close", "message"}

NaN == -2                      \* Number(text) of a text that is not a number
Inputs == {"7", "x"}           \* texts typed into the number input

(* ---------------- inbound payloads (event.data) ---------------- *)
\* The raw text of a frame: a JSON envelope, or text that is not JSON.
Envelope(t, v, h) == [text |-> "json", type |-> t, value |-> v, highScore |-> h]
Garbage == [text |-> "garbage", type |-> "", value |-> Null, highScore |-> Null]

Payloads ==
  {Envelope("update-count", v, Null) : v \in Values}
    \cup {Envelope("game-over", Null, Null),
          Envelope("verified", Null, Null),
          Envelope("verification-required", Null, Null),
          Envelope("initial", 2, 10),
          Garbage}

\* JSON.parse(data) throws a SyntaxError on text that is not JSON.
JSONparseThrows(data) == data.text = "garbage"

VARIABLES
  sockets,            \* every WebSocket created so far: readyState + attached listeners
  websocketRef,       \* useWebsocket: websocketRef.current (index into sockets, or NoSocket)
  isLoading,          \* useWebsocket: isLoading state
  retryTimeoutsRef,   \* useWebsocket: retryTimeoutsRef.current (timer ids)
  timers,             \* host timer table: ids set by setTimeout, not yet fired or cleared
  nextTimeout,        \* host: next timer id setTimeout returns
  location,           \* window.location (last navigation requested)
  listeners,          \* createEventEmitter: Map event -> insertion-ordered Set of callbacks
  mounted,            \* Home has been mounted (its effects have been flushed once)
  number,             \* Home: number state
  isVerificationRequired, \* Home: isVerificationRequired state
  colorUpdates,       \* calls of updateColors() made by the score subscriber
  highScore,          \* high_score of the user record held by the client
  subscribed,         \* the callback the subscriber effect registered last (held by its cleanup)
  nextCallback,       \* identity of the next closure created by the subscriber effect
  effectRuns,         \* runs of the transport's mount effect so far
  closes,             \* close events delivered so far
  received,           \* payloads the transport has received, in order
  delivered,          \* payloads handed to the 'score' subscriber, in order
  lastCloseCode,      \* event.code of the last 'close' event handleClose handled
  lastEmit,           \* the last emit: event, data, callbacks registered, invoked, threw
  unmounted,          \* Home has been unmounted (its effect cleanups have run)
  currentNumberInput, \* Home: currentNumberInput state
  sent,               \* data handed to WebSocket.send on an open connection, in order
  lastSubmit,         \* what the last handleSubmit did: "sent", "dropped" or "threw"
  gameStatusData,     \* useVerifyGameIsOngoing: gameStatusData state
  isGameOngoing,      \* useVerifyGameIsOngoing: isGameOngoing state
  now,                \* the wall clock, in poll intervals
  lastTickAt          \* the clock value the last poll tick read

vars == <<sockets, websocketRef, isLoading, retryTimeoutsRef, timers, nextTimeout,
          location, listeners, mounted, number, isVerificationRequired,
          colorUpdates, highScore, subscribed, nextCallback, effectRuns, closes, received,
          delivered, lastCloseCode, lastEmit, unmounted, currentNumberInput, sent,
          lastSubmit, gameStatusData, isGameOngoing, now, lastTickAt>>

transportVars == <<sockets, websocketRef, isLoading, retryTimeoutsRef, timers,
                   nextTimeout, location>>
homeVars == <<number, isVerificationRequired, colorUpdates, highScore>>
inputVars == <<currentNumberInput, sent, lastSubmit>>
pollVars == <<gameStatusData, isGameOngoing, now, lastTickAt>>

Range(s) == {s[i] : i \in DOMAIN s}
Last(s) == s[Len(s)]
NoCode == 0                    \* no close event handled yet
NoEmit == [event |-> "", data |-> Garbage, registered |-> <<>>, invoked |-> <<>>,
           threw |-> FALSE]

(* ======================= createEventEmitter ======================= *)
\* A callback is a function object: `kind` tells what it runs, `id` is its
\* identity, `number` the value of `number` its closure captured, `throws`
\* whether a probe callback raises, `act` and `target` what a probe callback
\* does to the registry while it runs ("on" or "off" of the probe `target`).
HomeCallback(id, n) ==
  [kind |-> "home", id |-> id, number |-> n, throws |-> FALSE, act |-> "none",
   target |-> 0]
Probe(id, th) ==
  [kind |-> "probe", id |-> id, number |-> Null, throws |-> th, act |-> "none",
   target |-> 0]
\* A callback that subscribes (act "on") or unsubscribes (act "off") the
\* probe `target` on the topic being published.
Mutator(id, act, target) ==
  [kind |-> "probe", id |-> id, number |-> Null, throws |-> FALSE, act |-> act,
   target |-> target]

\* A JavaScript Set keeps insertion order: a sequence without duplicates.
SetAdd_Append(s, x) == Append(s, x)
SetAdd(s, x) == IF x \in Range(s) THEN s ELSE Append(s, x)
SetDelete(s, x) == SelectSeq(s, LAMBDA y : y # x)
\* A JavaScript Map: a function whose domain is the set of keys present.
EmptyMap == [k \in {} |-> <<>>]
MapSet(m, k, v) == [x \in (DOMAIN m) \cup {k} |-> IF x = k THEN v ELSE m[x]]

on(ls, event, callback) ==
  LET withKey == IF event \in DOMAIN ls THEN ls ELSE MapSet(ls, event, <<>>)
  IN MapSet(withKey, event, SetAdd(withKey[event], callback))

off(ls, event, callback) ==
  IF event \in DOMAIN ls
  THEN MapSet(ls, event, SetDelete(ls[event], callback))
  ELSE ls

(* ======================= Home: the 'score' subscriber ======================= *)
\* The state the subscriber writes: React state of Home, window.location and
\* the palette (updateColors), plus the user's high score, which it never
\* touches.
HomeState == [number |-> number,
              isVerificationRequired |-> isVerificationRequired,
              location |-> location,
              colorUpdates |-> colorUpdates,
              highScore |-> highScore]

\* Variant: the update-count case also clears the verification flag.
updateCount_ClearsFlag(cb, parsedData, st) ==
  LET isFirstRequest == cb.number = Null
      palette == (parsedData.value % 10 = 0 \/ parsedData.value = 1) /\ ~isFirstRequest
  IN [st EXCEPT !.colorUpdates = IF palette THEN @ + 1 ELSE @,
                !.number = parsedData.value,
                !.isVerificationRequired = FALSE]

\* Variant: setNumber slipped inside the palette `if`.
updateCount_InsideIf(cb, parsedData, st) ==
  LET isFirstRequest == cb.number = Null
      palette == (parsedData.value % 10 = 0 \/ parsedData.value = 1) /\ ~isFirstRequest
  IN IF palette
     THEN [st EXCEPT !.colorUpdates = @ + 1, !.number = parsedData.value]
     ELSE st

\* case 'update-count'
updateCount(cb, parsedData, st) ==
  LET isFirstRequest == cb.number = Null
      palette == (parsedData.value % 10 = 0 \/ parsedData.value = 1) /\ ~isFirstRequest
  IN [st EXCEPT !.colorUpdates = IF palette THEN @ + 1 ELSE @,
                !.number = parsedData.value]

\* Variant: an 'initial' case that sets number.
scoreSwitch_InitialSetsNumber(cb, parsedData, st) ==
  CASE parsedData.type = "update-count" -> updateCount(cb, parsedData, st)
    [] parsedData.type = "game-over" -> [st EXCEPT !.location = "/game-over"]
    [] parsedData.type = "verified" -> [st EXCEPT !.isVerificationRequired = FALSE]
    [] parsedData.type = "verification-required" ->
         [st EXCEPT !.isVerificationRequired = TRUE]
    [] parsedData.type = "initial" -> [st EXCEPT !.number = parsedData.value]
    [] OTHER -> st

scoreSwitch_Fallthrough(cb, parsedData, st) ==
  CASE parsedData.type = "update-count" -> updateCount(cb, parsedData, st)
    [] parsedData.type = "game-over" -> [st EXCEPT !.location = "/game-over"]
    [] parsedData.type \in {"verified", "verification-required"} ->
         [st EXCEPT !.isVerificationRequired = TRUE]
    [] OTHER -> st
\* the switch on parsedData.type
scoreSwitch(cb, parsedData, st) ==
  CASE parsedData.type = "update-count" -> updateCount(cb, parsedData, st)
    [] parsedData.type = "game-over" -> [st EXCEPT !.location = "/game-over"]
    [] parsedData.type = "verified" -> [st EXCEPT !.isVerificationRequired = FALSE]
    [] parsedData.type = "verification-required" ->
         [st EXCEPT !.isVerificationRequired = TRUE]
    [] OTHER -> st

\* Whether calling the callback with `data` raises.
Throws(cb, data) ==
  IF cb.kind = "home"
  THEN JSONparseThrows(data)
  ELSE cb.throws

\* The state after the callback returned normally.
Invoke(cb, data, st) ==
  IF cb.kind = "home" THEN scoreSwitch(cb, data, st) ELSE st

\* The registry after the callback ran: a probe may call on or off for the
\* topic being published; the Home subscriber only calls setState.
Mutate(cb, event, ls) ==
  CASE cb.act = "on" -> on(ls, event, Probe(cb.target, FALSE))
    [] cb.act = "off" -> off(ls, event, Probe(cb.target, FALSE))
    [] OTHER -> ls

(* ---- emit: listeners.get(event).forEach(callback => callback(data)) ---- *)
\* Set.prototype.forEach walks the live Set in insertion order: `i` is the
\* position of the entry to visit next.  An entry deleted before it is
\* visited is skipped, an entry added before forEach ends is visited; the
\* entries at or before the one just visited that are still present stay
\* behind the cursor.  An exception raised by a callback leaves forEach and
\* emit at once.
RECURSIVE forEach(_, _, _, _)
forEach(event, i, data, acc) ==
  LET cbs == acc.ls[event]
  IN IF i > Len(cbs) THEN acc
     ELSE LET cb == cbs[i]
              called == Append(acc.invoked, cb)
              after == Mutate(cb, event, acc.ls)
              next == 1 + Cardinality({k \in 1..i : cbs[k] \in Range(after[event])})
          IN IF Throws(cb, data)
             THEN [acc EXCEPT !.invoked = called, !.threw = TRUE]
             ELSE forEach(event, next, data,
                          [acc EXCEPT !.invoked = called,
                                      !.st = Invoke(cb, data, acc.st),
                                      !.ls = after])

emit(ls, event, data, st) ==
  LET start == [st |-> st, ls |-> ls, invoked |-> <<>>, threw |-> FALSE]
  IN IF event \in DOMAIN ls THEN forEach(event, 1, data, start) ELSE start

(* ======================= useWebsocket ======================= *)
\* The state the transport's callbacks read and write, as one record.
Transport == [sockets |-> sockets, websocketRef |-> websocketRef,
              isLoading |-> isLoading, retryTimeoutsRef |-> retryTimeoutsRef,
              timers |-> timers, nextTimeout |-> nextTimeout,
              location |-> location]

NewSocket == [readyState |-> "CONNECTING", listeners |-> AllEvents]

\* retryTimeoutsRef.current.forEach(clearTimeout)
clearTimeouts(t) == [t EXCEPT !.timers = @ \ Range(t.retryTimeoutsRef)]

handleOpen_NoClear(t) == [t EXCEPT !.isLoading = FALSE]
handleOpen(t) == clearTimeouts([t EXCEPT !.isLoading = FALSE])

redirectOnPolicyViolation(t, code) ==
  IF code = PolicyViolation THEN [t EXCEPT !.location = "/auth/guest"] ELSE t

\* Variant: the 'open' listener is removed but the handle is kept.
detachCurrent_KeepsHandle(t) ==
  IF t.websocketRef # NoSocket
  THEN [t EXCEPT !.sockets[t.websocketRef].listeners = @ \ {"open"}]
  ELSE t

detachCurrent(t) ==
  LET removed == IF t.websocketRef # NoSocket
                 THEN [t EXCEPT !.sockets[t.websocketRef].listeners = @ \ {"open"}]
                 ELSE t
  IN [removed EXCEPT !.websocketRef = NoSocket]

\* Variant: the previous timeouts are neither cleared nor forgotten.
clearPreviousTimeouts_Skipped(t) == t

clearPreviousTimeouts(t) == [clearTimeouts(t) EXCEPT !.retryTimeoutsRef = <<>>]

\* Variant: a retry cap of one.
scheduleRetry_Capped(t) ==
  IF t.nextTimeout > 1 THEN t
  ELSE [t EXCEPT !.timers = @ \cup {t.nextTimeout},
                 !.nextTimeout = @ + 1,
                 !.retryTimeoutsRef = Append(@, t.nextTimeout)]

scheduleRetry(t) ==
  LET newTimeout == t.nextTimeout
  IN [t EXCEPT !.timers = @ \cup {newTimeout},
               !.nextTimeout = @ + 1,
               !.retryTimeoutsRef = Append(@, newTimeout)]

handleClose(t, code) ==
  scheduleRetry(clearPreviousTimeouts(detachCurrent(redirectOnPolicyViolation(t, code))))

isClosedOrClosing(sock) == sock.readyState \in {"CLOSED", "CLOSING"}

\* Variant: no early return, a connection is always created.
keepsCurrent_Never(t) == FALSE

\* the early return of connectWebSocket
keepsCurrent(t) ==
  t.websocketRef # NoSocket /\ ~isClosedOrClosing(t.sockets[t.websocketRef])

connectWebSocket(t) ==
  IF keepsCurrent(t) THEN t
  ELSE LET dropped == IF t.websocketRef # NoSocket
                      THEN [t EXCEPT !.sockets[t.websocketRef].listeners = {}]
                      ELSE t
       IN [dropped EXCEPT !.sockets = Append(@, NewSocket),
                          !.websocketRef = Len(t.sockets) + 1]

SetTransport(t) ==
  /\ sockets' = t.sockets
  /\ websocketRef' = t.websocketRef
  /\ isLoading' = t.isLoading
  /\ retryTimeoutsRef' = t.retryTimeoutsRef
  /\ timers' = t.timers
  /\ nextTimeout' = t.nextTimeout
  /\ location' = t.location

handleMessage(ls, topic, data, st) == emit(ls, topic, data, st)

(* ---- sendMessage: websocketRef.current?.send(data) ---- *)
\* WebSocket.send raises InvalidStateError while the connection is CONNECTING,
\* queues the data when it is OPEN and discards it when CLOSING or CLOSED;
\* the optional chaining skips the call when there is no handle.
sendMessage(t, log, data) ==
  IF t.websocketRef = NoSocket THEN [log |-> log, outcome |-> "dropped"]
  ELSE LET state == t.sockets[t.websocketRef].readyState
       IN CASE state = "CONNECTING" -> [log |-> log, outcome |-> "threw"]
            [] state = "OPEN" ->
                 [log |-> Append(log, data), outcome |-> "sent"]
            [] OTHER -> [log |-> log, outcome |-> "dropped"]

(* ======================= useVerifyGameIsOngoing ======================= *)
\* gameStatusData: null before the request resolves; the request resolves to
\* undefined when the response is not a success, else to the game status,
\* whose ended_at is null or a time.
NoGameStatus == [kind |-> "null", ended_at |-> Null]
UndefinedStatus == [kind |-> "undefined", ended_at |-> Null]
GameStatus(endedAt) == [kind |-> "data", ended_at |-> endedAt]
GameStatuses == {UndefinedStatus} \cup {GameStatus(e) : e \in {Null} \cup 0..MaxNow}

updatedGameStatus_StrictlyAfter(data, clock, ongoing, loc) ==
  IF data.kind = "undefined" THEN [isGameOngoing |-> ongoing, location |-> loc]
  ELSE IF data.ended_at # Null /\ clock > data.ended_at
       THEN [isGameOngoing |-> "false", location |-> "/game-over"]
       ELSE [isGameOngoing |-> "true", location |-> loc]

\* updatedGameStatus(gameStatusData) read at clock value `clock`: the new
\* isGameOngoing and location.  Reading ended_at of undefined raises.
updatedGameStatus(data, clock, ongoing, loc) ==
  IF data.kind = "undefined" THEN [isGameOngoing |-> ongoing, location |-> loc]
  ELSE IF data.ended_at # Null /\ clock >= data.ended_at
       THEN [isGameOngoing |-> "false", location |-> "/game-over"]
       ELSE [isGameOngoing |-> "true", location |-> loc]

(* ======================= Home: handleSubmit ======================= *)
\* Number(currentNumberInput)
NumberOf(text) ==
  CASE text = "" -> 0
    [] text = "7" -> 7
    [] OTHER -> NaN

\* JSON.stringify({type: 'update-count', value: numberValue}): NaN is written
\* as null.
Command(numberValue) ==
  [type |-> "update-count", value |-> IF numberValue = NaN THEN Null ELSE numberValue]

(* ======================= useSubscribe ======================= *)
\* subscribe(topic, cb): eventEmitter.on(topic, cb); the function it returns
\* calls eventEmitter.off(topic, cb).
subscribe(ls, topic, cb) == on(ls, topic, cb)
unsubscribe(ls, topic, cb) == off(ls, topic, cb)

\* Variant: the cleanup runs but the new closure is not registered.
resubscribe_NoSetup(ls, old, new) == unsubscribe(ls, TOPIC, old)

\* Variant: the effect has no cleanup, the previous closure stays registered.
resubscribe_NoCleanup(ls, old, new) == subscribe(ls, TOPIC, new)

\* Home's subscriber effect run again: cleanup of the previous run, then setup
\* with a closure over the current `number`.
resubscribe(ls, old, new) == subscribe(unsubscribe(ls, TOPIC, old), TOPIC, new)

(* ======================= the state machine ======================= *)
\* The callbacks registered for an event, in registration order.
Registered(event) == IF event \in DOMAIN listeners THEN listeners[event] ELSE <<>>

NoCallback == HomeCallback(0, Null)

Init ==
  /\ sockets = <<>>
  /\ websocketRef = NoSocket
  /\ isLoading = TRUE
  /\ retryTimeoutsRef = <<>>
  /\ timers = {}
  /\ nextTimeout = 1
  /\ location = "/"
  /\ listeners = EmptyMap
  /\ mounted = FALSE
  /\ number = Null
  /\ isVerificationRequired = TRUE
  /\ colorUpdates = 0
  /\ highScore \in HighScores
  /\ subscribed = NoCallback
  /\ nextCallback = 1
  /\ effectRuns = 0
  /\ closes = 0
  /\ received = <<>>
  /\ delivered = <<>>
  /\ lastCloseCode = NoCode
  /\ lastEmit = NoEmit
  /\ unmounted = FALSE
  /\ currentNumberInput = ""
  /\ sent = <<>>
  /\ lastSubmit = "none"
  /\ gameStatusData = NoGameStatus
  /\ isGameOngoing = "null"
  /\ now = 0
  /\ lastTickAt = Null

\* The first effect flush of Home: the transport's mount effect
\* (connectWebSocket) and then the subscriber effect.
Mount ==
  /\ ~mounted
  /\ mounted' = TRUE
  /\ SetTransport(connectWebSocket(Transport))
  /\ effectRuns' = effectRuns + 1
  /\ LET cb == HomeCallback(nextCallback, number)
     IN /\ listeners' = subscribe(listeners, TOPIC, cb)
        /\ subscribed' = cb
  /\ nextCallback' = nextCallback + 1
  /\ UNCHANGED <<unmounted, inputVars, pollVars,
                 homeVars, closes, received, delivered, lastCloseCode, lastEmit>>

\* The transport's mount effect run again.  Its dependencies never change, so
\* React runs it once per mount; a re-run (React's strict mode, a caller
\* passing another URL) is a step of ReconnectSpec only.
MountEffect ==
  /\ mounted
  /\ effectRuns < MaxEffectRuns
  /\ SetTransport(connectWebSocket(Transport))
  /\ effectRuns' = effectRuns + 1
  /\ UNCHANGED <<unmounted, inputVars, pollVars,
                 listeners, mounted, homeVars, subscribed, nextCallback, closes,
                 received, delivered, lastCloseCode, lastEmit>>

\* The subscriber effect run again after `number` (a dependency) changed.
SubscribeEffect ==
  /\ mounted
  /\ ~unmounted
  /\ subscribed.number # number
  /\ LET cb == HomeCallback(nextCallback, number)
     IN /\ listeners' = resubscribe(listeners, subscribed, cb)
        /\ subscribed' = cb
  /\ nextCallback' = nextCallback + 1
  /\ UNCHANGED <<unmounted, inputVars, pollVars,
                 transportVars, mounted, homeVars, effectRuns, closes, received,
                 delivered, lastCloseCode, lastEmit>>

\* The connection is established: readyState OPEN, 'open' is dispatched.
SocketOpen(s) ==
  /\ sockets[s].readyState = "CONNECTING"
  /\ LET opened == [Transport EXCEPT !.sockets[s].readyState = "OPEN"]
     IN SetTransport(IF "open" \in sockets[s].listeners THEN handleOpen(opened)
                     ELSE opened)
  /\ UNCHANGED <<unmounted, inputVars, pollVars,
                 listeners, mounted, homeVars, subscribed, nextCallback, effectRuns,
                 closes, received, delivered, lastCloseCode, lastEmit>>

\* The peer starts the closing handshake: readyState CLOSING, no event yet.
SocketClosing(s) ==
  /\ sockets[s].readyState = "OPEN"
  /\ closes < MaxCloses
  /\ sockets' = [sockets EXCEPT ![s].readyState = "CLOSING"]
  /\ UNCHANGED <<unmounted, inputVars, pollVars,
                 websocketRef, isLoading, retryTimeoutsRef, timers, nextTimeout,
                 location, listeners, mounted, homeVars, subscribed, nextCallback,
                 effectRuns, closes, received, delivered, lastCloseCode, lastEmit>>

\* The connection is closed or could not be established: readyState CLOSED,
\* 'close' is dispatched with the close code.
SocketClose(s, code) ==
  /\ sockets[s].readyState # "CLOSED"
  /\ closes < MaxCloses
  /\ closes' = closes + 1
  /\ LET closed == [Transport EXCEPT !.sockets[s].readyState = "CLOSED"]
     IN SetTransport(IF "close" \in sockets[s].listeners THEN handleClose(closed, code)
                     ELSE closed)
  /\ lastCloseCode' = IF "close" \in sockets[s].listeners THEN code ELSE lastCloseCode
  /\ UNCHANGED <<unmounted, inputVars, pollVars,
                 listeners, mounted, homeVars, subscribed, nextCallback, effectRuns,
                 received, delivered, lastEmit>>

\* The retry timer set by handleClose fires: connectWebSocket().
RetryFire(id) ==
  /\ id \in timers
  /\ SetTransport(connectWebSocket([Transport EXCEPT !.timers = @ \ {id}]))
  /\ UNCHANGED <<unmounted, inputVars, pollVars,
                 listeners, mounted, homeVars, subscribed, nextCallback, effectRuns,
                 closes, received, delivered, lastCloseCode, lastEmit>>

\* A frame arrives on an open connection: 'message' is dispatched.
SocketMessage(s, data) ==
  /\ sockets[s].readyState = "OPEN"
  /\ "message" \in sockets[s].listeners
  /\ Len(received) < MaxMessages
  /\ received' = Append(received, data)
  /\ LET r == handleMessage(listeners, TOPIC, data, HomeState)
     IN /\ number' = r.st.number
        /\ isVerificationRequired' = r.st.isVerificationRequired
        /\ location' = r.st.location
        /\ colorUpdates' = r.st.colorUpdates
        /\ highScore' = r.st.highScore
        /\ listeners' = r.ls
        /\ delivered' = delivered \o [i \in 1..Len(r.invoked) |-> data]
        /\ lastEmit' = [event |-> TOPIC, data |-> data,
                        registered |-> Registered(TOPIC), invoked |-> r.invoked,
                        threw |-> r.threw]
  /\ UNCHANGED <<unmounted, inputVars, pollVars,
                 sockets, websocketRef, isLoading, retryTimeoutsRef, timers,
                 nextTimeout, mounted, subscribed, nextCallback, effectRuns, closes,
                 lastCloseCode>>

\* getGameStatus() resolves: setGameStatusData(data).
GameStatusLoaded(data) ==
  /\ mounted
  /\ ~unmounted
  /\ gameStatusData = NoGameStatus
  /\ gameStatusData' = data
  /\ UNCHANGED <<transportVars, listeners, mounted, homeVars, subscribed,
                 nextCallback, effectRuns, closes, received, delivered, lastCloseCode,
                 lastEmit, unmounted, inputVars, isGameOngoing, now, lastTickAt>>

\* The 500 ms interval fires: updatedGameStatus(gameStatusData).
PollTick ==
  /\ mounted
  /\ ~unmounted
  /\ gameStatusData # NoGameStatus
  /\ LET r == updatedGameStatus(gameStatusData, now, isGameOngoing, location)
     IN /\ isGameOngoing' = r.isGameOngoing
        /\ location' = r.location
  /\ lastTickAt' = now
  /\ UNCHANGED <<sockets, websocketRef, isLoading, retryTimeoutsRef, timers,
                 nextTimeout, listeners, mounted, homeVars, subscribed, nextCallback,
                 effectRuns, closes, received, delivered, lastCloseCode, lastEmit,
                 unmounted, inputVars, gameStatusData, now>>

\* Half a second passes.
ClockTick ==
  /\ now < MaxNow
  /\ now' = now + 1
  /\ UNCHANGED <<transportVars, listeners, mounted, homeVars, subscribed,
                 nextCallback, effectRuns, closes, received, delivered, lastCloseCode,
                 lastEmit, unmounted, inputVars, gameStatusData, isGameOngoing,
                 lastTickAt>>

\* Home renders the input and the submit button only past its two early
\* returns.
Rendered == mounted /\ ~unmounted /\ isGameOngoing = "true" /\ number # Null

\* onChange of the input: setCurrentNumberInput(event.target.value).
InputChange(text) ==
  /\ Rendered
  /\ currentNumberInput' = text
  /\ UNCHANGED <<transportVars, listeners, mounted, homeVars, subscribed,
                 nextCallback, effectRuns, closes, received, delivered, lastCloseCode,
                 lastEmit, unmounted, sent, lastSubmit, pollVars>>

\* handleSubmit (Enter or the button): an exception raised by send leaves the
\* handler before setCurrentNumberInput('').
Submit ==
  /\ Rendered
  /\ Len(sent) < MaxSubmits
  /\ LET r == sendMessage(Transport, sent, Command(NumberOf(currentNumberInput)))
     IN /\ sent' = r.log
        /\ lastSubmit' = r.outcome
        /\ currentNumberInput' = IF r.outcome = "threw" THEN currentNumberInput ELSE ""
  /\ UNCHANGED <<transportVars, listeners, mounted, homeVars, subscribed,
                 nextCallback, effectRuns, closes, received, delivered, lastCloseCode,
                 lastEmit, unmounted, pollVars>>

\* Home is unmounted: the effect cleanups run.  The transport's mount effect
\* returns an empty cleanup, the subscriber effect unsubscribes its callback
\* and the poll effect clears its interval.
Unmount ==
  /\ mounted
  /\ ~unmounted
  /\ unmounted' = TRUE
  /\ listeners' = unsubscribe(listeners, TOPIC, subscribed)
  /\ UNCHANGED <<transportVars, mounted, homeVars, subscribed, nextCallback,
                 effectRuns, closes, received, delivered, lastCloseCode, lastEmit,
                 inputVars, pollVars>>

Next ==
  \/ Mount
  \/ SubscribeEffect
  \/ \E s \in DOMAIN sockets : SocketOpen(s)
  \/ \E s \in DOMAIN sockets : SocketClosing(s)
  \/ \E s \in DOMAIN sockets, code \in CloseCodes : SocketClose(s, code)
  \/ \E id \in timers : RetryFire(id)
  \/ \E s \in DOMAIN sockets, data \in Payloads : SocketMessage(s, data)

Spec == Init /\ [][Next]_vars

(* ---- the page in use: the player types and submits ---- *)
SessionPayloads ==
  {Envelope("update-count", 1, Null), Envelope("verified", Null, Null),
   Envelope("verification-required", Null, Null)}

SessionNext ==
  \/ Mount
  \/ SubscribeEffect
  \/ \E s \in DOMAIN sockets : SocketOpen(s)
  \/ \E s \in DOMAIN sockets : SocketClosing(s)
  \/ \E s \in DOMAIN sockets : SocketClose(s, 1006)
  \/ \E id \in timers : RetryFire(id)
  \/ \E s \in DOMAIN sockets, data \in SessionPayloads : SocketMessage(s, data)
  \/ GameStatusLoaded(GameStatus(Null))
  \/ PollTick
  \/ \E text \in Inputs : InputChange(text)
  \/ Submit

SessionSpec == Init /\ [][SessionNext]_vars

(* ---- the page torn down while the connection lives on ---- *)
TeardownNext == Next \/ Unmount

TeardownSpec == Init /\ [][TeardownNext]_vars

(* ---- the game status poll ---- *)
PollNext ==
  \/ Mount
  \/ Unmount
  \/ \E data \in GameStatuses : GameStatusLoaded(data)
  \/ PollTick
  \/ ClockTick

PollSpec == Init /\ [][PollNext]_vars

(* ---- the transport and the network alone, the mount effect re-run at will ---- *)
\* The peer sends no frame.  No step of SocketMessage or SubscribeEffect reads
\* or writes what the transport's callbacks read, so the transport behaves
\* here as it does under Spec, with re-runs of the mount effect interleaved.
\* The timer set by setTimeout fires once its delay has passed: weak fairness
\* of RetryFire.
ReconnectNext ==
  \/ Mount
  \/ MountEffect
  \/ \E s \in DOMAIN sockets : SocketOpen(s)
  \/ \E s \in DOMAIN sockets : SocketClosing(s)
  \/ \E s \in DOMAIN sockets, code \in CloseCodes : SocketClose(s, code)
  \/ \E id \in timers : RetryFire(id)

ReconnectSpec ==
  Init /\ [][ReconnectNext]_vars /\ WF_vars(\E id \in timers : RetryFire(id))

(* ---- the event emitter alone, driven by an arbitrary client ---- *)
\* Callbacks a client registers; those with an odd id raise when called.
Probes == {Probe(i, i % 2 = 1) : i \in 1..MaxProbes}
BusData == {Envelope("verified", Null, Null), Garbage}

BusOn(event, cb) ==
  /\ listeners' = on(listeners, event, cb)
  /\ UNCHANGED <<unmounted, inputVars, pollVars,
                 transportVars, mounted, homeVars, subscribed, nextCallback,
                 effectRuns, closes, received, delivered, lastCloseCode, lastEmit>>

BusOff(event, cb) ==
  /\ listeners' = off(listeners, event, cb)
  /\ UNCHANGED <<unmounted, inputVars, pollVars,
                 transportVars, mounted, homeVars, subscribed, nextCallback,
                 effectRuns, closes, received, delivered, lastCloseCode, lastEmit>>

BusEmit(event, data) ==
  /\ LET r == emit(listeners, event, data, HomeState)
     IN /\ listeners' = r.ls
        /\ lastEmit' = [event |-> event, data |-> data,
                        registered |-> Registered(event), invoked |-> r.invoked,
                        threw |-> r.threw]
  /\ UNCHANGED <<unmounted, inputVars, pollVars,
                 transportVars, mounted, homeVars, subscribed, nextCallback,
                 effectRuns, closes, received, delivered, lastCloseCode>>

BusNext ==
  \/ \E event \in Topics, cb \in Probes : BusOn(event, cb)
  \/ \E event \in Topics, cb \in Probes : BusOff(event, cb)
  \/ \E event \in Topics, data \in BusData : BusEmit(event, data)

BusSpec == Init /\ [][BusNext]_vars

(* -------- the emitter with callbacks that touch the registry -------- *)
\* One topic; the quiet probes neither throw nor act, one callback unsubscribes
\* a quiet probe and one subscribes it while the publish is running.
Quiet == {Probe(2 * i, FALSE) : i \in 1..MaxProbes}
Mutators == {Mutator(1, "off", 2), Mutator(3, "on", 2)}
DispatchCallbacks == Quiet \cup Mutators

DispatchNext ==
  \/ \E cb \in DispatchCallbacks : BusOn(TOPIC, cb)
  \/ \E cb \in DispatchCallbacks : BusOff(TOPIC, cb)
  \/ BusEmit(TOPIC, Envelope("verified", Null, Null))

DispatchSpec == Init /\ [][DispatchNext]_vars

(* ======================= derived history ======================= *)
IsUpdateCount(data) == data.text = "json" /\ data.type = "update-count"
IsGameOver(data) == data.text = "json" /\ data.type = "game-over"
IsInitial(data) == data.text = "json" /\ data.type = "initial"

\* The values of the update-count messages received so far, in order.
UpdateValues ==
  LET ups == SelectSeq(received, IsUpdateCount)
  IN [i \in 1..Len(ups) |-> ups[i].value]

StrictlyIncreasing(seq) == \A i \in 1..(Len(seq) - 1) : seq[i] < seq[i + 1]

GameOverSeen == \E i \in 1..Len(received) : IsGameOver(received[i])

\* Connections that are connecting or open.
ActiveConnections ==
  {s \in DOMAIN sockets : sockets[s].readyState \in {"CONNECTING", "OPEN"}}

MaxSockets == MaxCloses + MaxEffectRuns

\* handleClose has run and nothing has connected since: handleClose alone
\* nulls the handle, every run of connectWebSocket leaves it set.
AfterClose == mounted /\ websocketRef = NoSocket

IsVerification(data) ==
  data.text = "json" /\ data.type \in {"verified", "verification-required"}
Verifications == SelectSeq(received, IsVerification)

\* The update-count messages received so far that are not the first one and
\* carry a multiple of 10 or the value 1.
PaletteDue ==
  {i \in 2..Len(UpdateValues) : UpdateValues[i] % 10 = 0 \/ UpdateValues[i] = 1}

\* The message types the switch has a case for.
HandledTypes == {"update-count", "game-over", "verified", "verification-required"}
IsUnhandled(data) == data.text = "json" /\ data.type \notin HandledTypes

IsVerified(data) == data.text = "json" /\ data.type = "verified"
VerifiedSeen == \E i \in 1..Len(received) : IsVerified(received[i])

(* ======================= claims ======================= *)

\* C1: when the connection closes with code 1008 the client navigates to
\* /auth/guest and no retry is scheduled: no retry timer is pending after
\* that close.
C1_PolicyCloseSchedulesNoRetry ==
  (AfterClose /\ lastCloseCode = PolicyViolation)
    => (location = "/auth/guest" /\ timers = {})

\* C2: in every reachable state at most one connection is connecting or open,
\* and a step creates a connection only when there is no current handle or
\* the current handle is closed or closing.
C2_AtMostOneActiveConnection ==
  /\ [](Cardinality(ActiveConnections) <= 1)
  /\ [][Len(sockets') > Len(sockets)
          => (websocketRef = NoSocket \/ isClosedOrClosing(sockets[websocketRef]))]_vars

C2_Witness ==
  /\ effectRuns = 2
  /\ closes >= 1
  /\ Len(sockets) >= 2
  /\ Cardinality(ActiveConnections) = 1

\* C3: after each close with a code other than 1008, however many closes came
\* before it, exactly one retry timer is pending.
C3_ExactlyOneRetryAfterClose ==
  (AfterClose /\ lastCloseCode # PolicyViolation) => Cardinality(timers) = 1

\* Three non-1008 closes in a row, no open in between (isLoading is still true).
C3_Witness ==
  /\ AfterClose
  /\ lastCloseCode # PolicyViolation
  /\ location = "/"
  /\ nextTimeout = 4
  /\ isLoading
  /\ Cardinality(timers) = 1

\* C4: every close with a non-1008 code is eventually followed by a new
\* connection attempt, after every such close, and the transport is never
\* left without both a connection and a pending retry.
C4_RetriedIndefinitely ==
  /\ [](mounted =>
          \/ (websocketRef # NoSocket /\ sockets[websocketRef].readyState # "CLOSED")
          \/ timers # {})
  /\ \A n \in 0..MaxSockets :
       (AfterClose /\ lastCloseCode # PolicyViolation /\ Len(sockets) = n)
         ~> (Len(sockets) > n)

\* The third connection, made by a retry after the second close.
C4_Witness ==
  /\ timers = {}
  /\ nextTimeout = 3
  /\ Len(sockets) = 3
  /\ effectRuns = 1
  /\ location = "/"

\* C5: every message the transport receives is published unchanged on the
\* fixed topic and the subscriber gets the payloads in the order received,
\* each exactly once, across reconnects.
C5_DeliveredInOrderOnce ==
  /\ delivered = received
  /\ received # <<>> => (lastEmit.event = TOPIC /\ lastEmit.data = Last(received))

\* Two different payloads, the second one on a connection made by a retry.
C5_Witness ==
  /\ Len(received) = 2
  /\ received[1] # received[2]
  /\ nextTimeout >= 2
  /\ websocketRef >= 2
  /\ sockets[websocketRef].readyState = "OPEN"
  /\ delivered = received

\* C6: for update-count messages with strictly increasing values, after each
\* message is processed currentNumber equals the value of the latest
\* update-count received.
C6_NumberIsLatestUpdate ==
  (UpdateValues # <<>> /\ StrictlyIncreasing(UpdateValues))
    => number = Last(UpdateValues)

C6_Witness ==
  /\ Len(UpdateValues) = 2
  /\ UpdateValues[1] < UpdateValues[2]
  /\ number = UpdateValues[2]

\* C7: after a game-over message has been processed no later message is
\* processed as a transition; no later update-count changes currentNumber.
C7_GameOverIsTerminal ==
  [][GameOverSeen
       => (number' = number /\ isVerificationRequired' = isVerificationRequired)]_vars

\* C8: the high score never decreases, and an update-count whose value
\* exceeds the known high score raises the high score to that value (so it
\* equals the maximum of the initial high score and every value seen).
C8_HighScoreIsMaxSeen ==
  [][/\ highScore' >= highScore
     /\ (Len(received') = Len(received) + 1 /\ IsUpdateCount(Last(received'))
           /\ Last(received').value > highScore)
          => highScore' = Last(received').value]_vars

\* C9: after an initial message {type:'initial', value: v, highScore: h} is
\* received, currentNumber = v and highScore = h.
C9_InitialSetsNumberAndHighScore ==
  (received # <<>> /\ IsInitial(Last(received)))
    => (number = Last(received).value /\ highScore = Last(received).highScore)

\* C10: if one callback registered for a topic throws during a publish, every
\* other callback registered for that topic is still invoked for that publish.
C10_ThrowDoesNotStopSiblings ==
  lastEmit.threw => Range(lastEmit.invoked) = Range(lastEmit.registered)

\* C11: a subscribe or unsubscribe made by a callback during a publish does
\* not make the publish throw, and the callbacks the publish invokes are
\* exactly those registered when it began, in registration order: one removed
\* mid-dispatch is still invoked, one added mid-dispatch is not.
C11_DispatchOverSnapshot ==
  ~lastEmit.threw /\ lastEmit.invoked = lastEmit.registered

\* C12: a submit never raises, whatever the state of the transport (it hands
\* one command to an open connection and is a no-op otherwise).
C12_SubmitNeverRaises == lastSubmit # "threw"

\* C13: a payload that is not valid JSON is caught inside the subscriber: no
\* exception propagates out of the publish that delivered it.
C13_MalformedPayloadIsCaught ==
  (lastEmit.event = TOPIC /\ JSONparseThrows(lastEmit.data)) => ~lastEmit.threw

\* C14: the step that handles an 'open' event leaves isLoading false and no
\* retry timer pending, and a retry timer only becomes pending in a step that
\* handles a 'close' event: no retry timer can fire between an open and the
\* next close.
C14_OpenCancelsRetryTimers ==
  [][/\ (\E s \in DOMAIN sockets :
            /\ sockets[s].readyState = "CONNECTING"
            /\ "open" \in sockets[s].listeners
            /\ sockets'[s].readyState = "OPEN")
          => (~isLoading' /\ timers' = {})
     /\ (timers' \ timers # {}) => closes' = closes + 1]_vars

\* An open was handled after a close had scheduled a retry.
C14_Witness ==
  /\ closes > 0
  /\ retryTimeoutsRef # <<>>
  /\ websocketRef # NoSocket
  /\ sockets[websocketRef].readyState = "OPEN"
  /\ ~isLoading
  /\ timers = {}

\* C15: once a 'verified' or 'verification-required' message has been
\* received, the verification flag is set exactly when the most recent of
\* them is 'verification-required'.
C15_FlagFollowsLastVerification ==
  Verifications # <<>>
    => (isVerificationRequired = (Last(Verifications).type = "verification-required"))

\* The flag was cleared by 'verified' and set again by 'verification-required'.
C15_Witness ==
  /\ Len(Verifications) = 2
  /\ Verifications[1].type = "verified"
  /\ Verifications[2].type = "verification-required"
  /\ isVerificationRequired

\* C16: a publish invokes every callback registered for the topic, each
\* exactly once and in registration order, and no callback registered only
\* for another topic: the sequence of callbacks invoked is the sequence
\* registered for the topic (empty when the topic has no subscriber).
C16_PublishInvokesAllInOrder == lastEmit.invoked = lastEmit.registered

\* C17: the registry of a topic is a set.  In every state the emitter reaches,
\* registering a callback a second time changes nothing and leaves it
\* registered once, unregistering a callback that is not registered leaves
\* the registry unchanged, and a second call of the unsubscribe that on
\* returned has no further effect.
C17_RegistrySetSemantics ==
  \A event \in Topics, callback \in Probes :
    LET once == on(listeners, event, callback)
        unsubscribed == off(once, event, callback)
    IN /\ on(once, event, callback) = once
       /\ Cardinality({i \in 1..Len(once[event]) : once[event][i] = callback}) = 1
       /\ Len(Registered(event)) = Cardinality(Range(Registered(event)))
       /\ callback \notin Range(Registered(event))
            => off(listeners, event, callback) = listeners
       /\ off(unsubscribed, event, callback) = unsubscribed

\* Both probes are registered for one topic, and the other topic has had its
\* only subscriber unregistered.
C17_Witness ==
  /\ Len(Registered(TOPIC)) = 2
  /\ "other" \in DOMAIN listeners
  /\ Registered("other") = <<>>

\* C18: while the verification flag is set no update-count command is handed
\* to the transport: a step taken with the flag set leaves the log of sent
\* commands unchanged.
C18_NoSendWhileVerificationRequired ==
  [][isVerificationRequired => sent' = sent]_vars

\* C19: once Home is unmounted the transport is torn down: no listener is
\* left attached to any connection and no retry timer is pending, so no
\* inbound message is published and no retry opens a connection any more.
C19_TeardownDetachesTransport ==
  unmounted
    => /\ timers = {}
       /\ \A s \in DOMAIN sockets : sockets[s].listeners = {}

\* C20: once the game status is loaded, the status after a poll tick is the
\* one derived from the end time and the clock the tick read: ongoing, with
\* no redirect, if there is no end time or the clock was before it; ended,
\* with the redirect to /game-over, if the clock had reached it.
C20_TickDerivesStatus ==
  (lastTickAt # Null /\ gameStatusData.kind = "data")
    => IF gameStatusData.ended_at = Null \/ lastTickAt < gameStatusData.ended_at
       THEN isGameOngoing = "true" /\ location # "/game-over"
       ELSE isGameOngoing = "false" /\ location = "/game-over"

\* A tick read the clock exactly at the end time, after the game had started.
C20_Witness ==
  /\ gameStatusData.kind = "data"
  /\ gameStatusData.ended_at > 0
  /\ lastTickAt = gameStatusData.ended_at
  /\ isGameOngoing = "false"
  /\ location = "/game-over"

\* C21: an update-count message changes the palette exactly when it is not
\* the first update-count received and its value is a multiple of 10 or is 1,
\* whatever the interleaving of messages and re-subscriptions: the number of
\* palette changes is the number of such messages received.
C21_PaletteOnEveryDueUpdate == colorUpdates = Cardinality(PaletteDue)

\* C22: the step that receives a well-formed message whose type is none of
\* update-count, game-over, verified and verification-required leaves number,
\* the verification flag and the location unchanged.
C22_UnhandledTypeChangesNothing ==
  [][(Len(received') > Len(received) /\ IsUnhandled(Last(received')))
       => /\ number' = number
          /\ isVerificationRequired' = isVerificationRequired
          /\ location' = location]_vars

\* An 'initial' message carrying another value arrived after an update-count
\* and a re-subscription, and number is still the update-count's value.
C22_Witness ==
  /\ Len(received) = 2
  /\ IsUpdateCount(received[1])
  /\ IsUnhandled(received[2])
  /\ received[2].value # received[1].value
  /\ number = received[1].value

\* C23: while Home is mounted exactly one handler, the one of the latest run
\* of the subscriber effect, is registered on the 'score' topic, and every
\* publish of an inbound message invokes exactly one handler.
C23_ExactlyOneHandler ==
  /\ mounted => Registered(TOPIC) = <<subscribed>>
  /\ lastEmit.event = TOPIC => Len(lastEmit.invoked) = 1

\* A message was dispatched to the handler registered by a re-subscription.
C23_Witness ==
  /\ nextCallback >= 3
  /\ Len(received) = 2
  /\ Registered(TOPIC) = <<subscribed>>
  /\ lastEmit.invoked = <<subscribed>>
  /\ subscribed.number # Null

\* C24: the verification flag is set from the start and as long as no
\* 'verified' message has been received, and the only step that clears it is
\* the one that receives a 'verified' message: no update-count, game-over,
\* open, close or reconnect clears it.
C24_FlagSetUntilVerified ==
  /\ [](~VerifiedSeen => isVerificationRequired)
  /\ [][(isVerificationRequired /\ ~isVerificationRequired')
          => (Len(received') > Len(received) /\ IsVerified(Last(received')))]_vars

\* An update-count and a game-over were processed and the connection was
\* lost and opened again; the flag is still set.
C24_Witness ==
  /\ Len(received) = 2
  /\ IsUpdateCount(received[1])
  /\ IsGameOver(received[2])
  /\ closes >= 1
  /\ websocketRef >= 2
  /\ sockets[websocketRef].readyState = "OPEN"
  /\ isVerificationRequired

\* C25: whenever a retry timer is pending the current handle is null, and
\* the step in which a pending retry timer goes away is its firing, which
\* creates a new connection and makes it the current handle.
C25_PendingRetryMeansNoHandle ==
  /\ [](timers # {} => websocketRef = NoSocket)
  /\ [][(timers' # timers /\ timers' \subseteq timers)
          => (Len(sockets') = Len(sockets) + 1 /\ websocketRef' = Len(sockets'))]_vars

\* The second retry is pending: the first one fired and made a connection,
\* which closed in turn.
C25_Witness ==
  /\ nextTimeout >= 3
  /\ Len(sockets) >= 2
  /\ timers # {}
  /\ websocketRef = NoSocket

====
